---- MODULE Spec2Model ----
(***************************************************************************)
(* The BNO055 register-map driver of src/src/lib.rs over an I2C transport. *)
(*                                                                         *)
(* The transport is a register file: a byte or block write stores its      *)
(* bytes at consecutive addresses starting at the given register, a read   *)
(* of a stored register returns what was stored there, and a read of a     *)
(* register the chip produces itself (identity, status, sensor data)       *)
(* returns a value the chip chooses.  Every transaction may fail.          *)
(*                                                                         *)
(* Each driver method is one action.  A method is an operator from the     *)
(* driver/bus state before the call to the state after it; the bus         *)
(* transactions and sleeps it performs are appended, in order, to a log.   *)
(***************************************************************************)
EXTENDS Integers, Sequences, FiniteSets, TLC

VARIABLES
    phase,    \* "closed" (before new), "open", "failed" (new returned Err), "panicked"
    mode,     \* BNO055.mode, the driver's cached operating mode
    regs,     \* the registers of the device that store what is written to them
    log,      \* the bus transactions and sleeps of the most recent call, in order
    op,       \* the most recent call: its name, argument and the state it started in
    result,   \* what the most recent call returned
    calset    \* the buffer of the most recent set_calibration that returned Ok

vars == <<phase, mode, regs, log, op, result, calset>>

----------------------------------------------------------------------------
(* Register addresses and values (decimal; the source writes them in hex). *)

BNO055_ID == 160
BNO055_CHIP_ID == 0
BNO055_PAGE_ID == 7
BNO055_ACC_DATA_X_LSB == 8
BNO055_MAG_DATA_X_LSB == 14
BNO055_GYR_DATA_X_LSB == 20
BNO055_EUL_HEADING_LSB == 26
BNO055_QUA_DATA_W_LSB == 32
BNO055_LIA_DATA_X_LSB == 40
BNO055_TEMP == 52
BNO055_CALIB_STAT == 53
BNO055_ST_RESULT == 54
BNO055_SYS_STATUS == 57
BNO055_SYS_ERR == 58
BNO055_OPR_MODE == 61
BNO055_PWR_MODE == 62
BNO055_SYS_TRIGGER == 63
BNO055_ACC_OFFSET_X_LSB == 85
BNO055_MAG_RADIUS_MSB == 106

\* BNO055OperationMode, by discriminant
ConfigMode == 0
Ndof == 12
Modes == 0 .. 12

\* BNO055RegisterPage and BNO055PowerMode, by discriminant
Page0 == 0
Page1 == 1
PowerNormal == 0
PowerSuspend == 2

\* BNO055SystemStatusCode and BNO055SystemErrorCode, by discriminant
StatusCodes == 0 .. 6
ErrorCodes == 0 .. 10

\* The 22 offset/radius registers 0x55-0x6A
CalibLen == 22
CalibRegs == BNO055_ACC_OFFSET_X_LSB .. BNO055_MAG_RADIUS_MSB

----------------------------------------------------------------------------
(* Bounds of the model. *)

\* how many registers past MAG_RADIUS_MSB the register file keeps
ExtraRegs == 1

StoredRegs ==
    {BNO055_PAGE_ID, BNO055_OPR_MODE, BNO055_PWR_MODE, BNO055_SYS_TRIGGER}
        \cup (BNO055_ACC_OFFSET_X_LSB .. (BNO055_MAG_RADIUS_MSB + ExtraRegs))

----------------------------------------------------------------------------
(* u8 arithmetic *)

RECURSIVE BitAnd(_, _)
BitAnd(a, b) ==
    IF a = 0 \/ b = 0 THEN 0
    ELSE (a % 2) * (b % 2) + 2 * BitAnd(a \div 2, b \div 2)

RECURSIVE BitOr(_, _)
BitOr(a, b) ==
    IF a = 0 THEN b
    ELSE IF b = 0 THEN a
    ELSE (IF a % 2 = 1 \/ b % 2 = 1 THEN 1 ELSE 0) + 2 * BitOr(a \div 2, b \div 2)

Shr(a, n) == a \div (2 ^ n)

----------------------------------------------------------------------------
(* The transport.  s is the state of one call in progress:                 *)
(*   mode  the driver's cached mode       regs  the device's registers     *)
(*   log   the transactions so far        fail  transactions left until    *)
(*   err   the last transaction failed          one fails (0: none does)   *)
(*   rd    the bytes the last read returned                                *)
(* An event of the log records the transaction (k, reg, data), or the      *)
(* sleep (ms), whether it succeeded (ok), and whether the device's mode    *)
(* register held Config Mode when it was issued (cfg).                     *)

Event(k, reg, data, ms, ok, s) ==
    [k |-> k, reg |-> reg, data |-> data, ms |-> ms, ok |-> ok,
     cfg |-> s.regs[BNO055_OPR_MODE] = ConfigMode]

Fails(s) == s.fail = 1

Tick(s) == IF s.fail > 1 THEN s.fail - 1 ELSE 0

Store(r, reg, data) ==
    [a \in DOMAIN r |->
        IF a >= reg /\ a < reg + Len(data) THEN data[a - reg + 1] ELSE r[a]]

\* I2CDevice::smbus_write_byte_data(register, value)
WriteByte(s, reg, v) ==
    IF Fails(s)
    THEN [s EXCEPT !.log = Append(@, Event("write", reg, <<v>>, 0, FALSE, s)),
                   !.err = TRUE, !.fail = 0]
    ELSE [s EXCEPT !.log = Append(@, Event("write", reg, <<v>>, 0, TRUE, s)),
                   !.err = FALSE, !.fail = Tick(s),
                   !.regs = Store(@, reg, <<v>>)]

\* I2CDevice::smbus_write_block_data(register, values)
WriteBlock(s, reg, data) ==
    IF Fails(s)
    THEN [s EXCEPT !.log = Append(@, Event("write_block", reg, data, 0, FALSE, s)),
                   !.err = TRUE, !.fail = 0]
    ELSE [s EXCEPT !.log = Append(@, Event("write_block", reg, data, 0, TRUE, s)),
                   !.err = FALSE, !.fail = Tick(s),
                   !.regs = Store(@, reg, data)]

\* I2CDevice::smbus_read_byte_data(register); v is the chip's value when the
\* register is not one that stores what was written
ReadByte(s, reg, v) ==
    LET got == IF reg \in DOMAIN s.regs THEN s.regs[reg] ELSE v IN
    IF Fails(s)
    THEN [s EXCEPT !.log = Append(@, Event("read", reg, <<>>, 0, FALSE, s)),
                   !.err = TRUE, !.fail = 0, !.rd = <<>>]
    ELSE [s EXCEPT !.log = Append(@, Event("read", reg, <<got>>, 0, TRUE, s)),
                   !.err = FALSE, !.fail = Tick(s), !.rd = <<got>>]

\* I2CDevice::smbus_read_i2c_block_data(register, len); blk is the chip's block
\* when the registers are not stored ones
ReadBlock(s, reg, n, blk) ==
    LET got == [i \in 1 .. n |->
                  IF (reg + i - 1) \in DOMAIN s.regs THEN s.regs[reg + i - 1]
                  ELSE IF i <= Len(blk) THEN blk[i] ELSE 0] IN
    IF Fails(s)
    THEN [s EXCEPT !.log = Append(@, Event("read_block", reg, <<>>, 0, FALSE, s)),
                   !.err = TRUE, !.fail = 0, !.rd = <<>>]
    ELSE [s EXCEPT !.log = Append(@, Event("read_block", reg, got, 0, TRUE, s)),
                   !.err = FALSE, !.fail = Tick(s), !.rd = got]

\* thread::sleep(Duration::from_millis(ms))
Sleep(s, ms) ==
    [s EXCEPT !.log = Append(@, Event("sleep", 0, <<>>, ms, TRUE, s))]

Ok(s, v) == [s EXCEPT !.err = FALSE, !.ret = [tag |-> "ok", val |-> v]]

Err(s) == [s EXCEPT !.err = TRUE, !.ret = [tag |-> "err", val |-> <<>>]]

----------------------------------------------------------------------------
(* The driver's methods. *)

\* set_mode returning right after the write, without the settling delay
SetModeNoDelay(s, m) ==
    IF s.mode # m
    THEN LET t == WriteByte(s, BNO055_OPR_MODE, m) IN
         IF t.err THEN Err(t) ELSE Ok(t, <<>>)
    ELSE Ok(s, <<>>)

\* set_mode without the comparison against the cached mode
SetModeUnconditional(s, m) ==
    LET t == WriteByte(s, BNO055_OPR_MODE, m) IN
    IF t.err THEN Err(t) ELSE Ok(Sleep(t, 19), <<>>)

\* set_mode recording the mode it wrote in the cached mode
SetModeCaching(s, m) ==
    IF s.mode # m
    THEN LET t == WriteByte(s, BNO055_OPR_MODE, m) IN
         IF t.err THEN Err(t) ELSE Ok([Sleep(t, 19) EXCEPT !.mode = m], <<>>)
    ELSE Ok(s, <<>>)

\* set_mode sleeping before it looks at the outcome of the write
SetModeDelayFirst(s, m) ==
    IF s.mode # m
    THEN LET t == WriteByte(s, BNO055_OPR_MODE, m) IN
         IF t.err THEN Err(Sleep(t, 19)) ELSE Ok(Sleep(t, 19), <<>>)
    ELSE Ok(s, <<>>)

\* BNO055::set_mode
SetMode(s, m) ==
    IF s.mode # m
    THEN LET t == WriteByte(s, BNO055_OPR_MODE, m) IN
         IF t.err THEN Err(t) ELSE Ok(Sleep(t, 19), <<>>)
    ELSE Ok(s, <<>>)

\* BNO055::reset
Reset(s) ==
    LET t == WriteByte(s, BNO055_SYS_TRIGGER, 32) IN
    IF t.err THEN Err(t) ELSE Ok(t, <<>>)

\* BNO055::set_power_mode
SetPowerMode(s, m) ==
    LET t == WriteByte(s, BNO055_PWR_MODE, m) IN
    IF t.err THEN Err(t) ELSE Ok(t, <<>>)

\* BNO055::set_page
SetPage(s, page) ==
    LET t == WriteByte(s, BNO055_PAGE_ID, page) IN
    IF t.err THEN Err(t) ELSE Ok(t, <<>>)

\* new without the comparison of the identity byte
NewUnchecked(s, chipid) ==
    LET a == ReadByte(s, BNO055_CHIP_ID, chipid) IN
    IF a.err THEN Err(a) ELSE
    LET b == SetMode([a EXCEPT !.mode = ConfigMode], ConfigMode) IN
    IF b.err THEN Err(b) ELSE
    LET c == SetPage(b, Page0) IN
    IF c.err THEN Err(c) ELSE
    LET d == Reset(c) IN
    IF d.err THEN Err(d) ELSE
    LET e == SetPowerMode(d, PowerNormal) IN
    IF e.err THEN Err(e) ELSE
    LET f == WriteByte(e, BNO055_SYS_TRIGGER, 0) IN
    IF f.err THEN Err(f) ELSE Ok(f, <<>>)

\* BNO055::new; chipid is what the chip presents at BNO055_CHIP_ID
New(s, chipid) ==
    LET a == ReadByte(s, BNO055_CHIP_ID, chipid) IN
    IF a.err THEN Err(a)
    ELSE IF a.rd[1] # BNO055_ID
    THEN [a EXCEPT !.ret = [tag |-> "panic", val |-> <<>>]]
    ELSE
    LET b == SetMode([a EXCEPT !.mode = ConfigMode], ConfigMode) IN
    IF b.err THEN Err(b) ELSE
    LET c == SetPage(b, Page0) IN
    IF c.err THEN Err(c) ELSE
    LET d == Reset(c) IN
    IF d.err THEN Err(d) ELSE
    LET e == SetPowerMode(d, PowerNormal) IN
    IF e.err THEN Err(e) ELSE
    LET f == WriteByte(e, BNO055_SYS_TRIGGER, 0) IN
    IF f.err THEN Err(f) ELSE Ok(f, <<>>)

\* set_external_crystal writing Config Mode itself and not switching back
SetExternalCrystalForced(s, ext) ==
    LET a == WriteByte(s, BNO055_OPR_MODE, ConfigMode) IN
    IF a.err THEN Err(a) ELSE
    LET b == WriteByte(Sleep(a, 19), BNO055_SYS_TRIGGER, IF ext THEN 128 ELSE 0) IN
    IF b.err THEN Err(b) ELSE Ok(b, <<>>)

\* set_external_crystal dropping the outcome of the trigger write
SetExternalCrystalUnchecked(s, ext) ==
    LET prev == s.mode
        a == SetMode(s, ConfigMode) IN
    IF a.err THEN Err(a) ELSE
    LET b == WriteByte(a, BNO055_SYS_TRIGGER, IF ext THEN 128 ELSE 0)
        c == SetMode(b, prev) IN
    IF c.err THEN Err(c) ELSE Ok(c, <<>>)

\* BNO055::set_external_crystal
SetExternalCrystal(s, ext) ==
    LET prev == s.mode
        a == SetMode(s, ConfigMode) IN
    IF a.err THEN Err(a) ELSE
    LET b == WriteByte(a, BNO055_SYS_TRIGGER, IF ext THEN 128 ELSE 0) IN
    IF b.err THEN Err(b) ELSE
    LET c == SetMode(b, prev) IN
    IF c.err THEN Err(c) ELSE Ok(c, <<>>)

\* mem::transmute of a byte to a #[repr(u8)] enum with the discriminants `codes`.
\* A byte that is no discriminant is undefined behaviour: the value produced is
\* the byte itself, carried as an invalid enum value, or any variant of the enum.
Transmute(b, codes) == IF b \in codes THEN {b} ELSE {b} \cup codes

\* the self-test branch writing the self-test bit alone, not OR-ed into the
\* trigger register's value
SelfTestOverwrite(s, run, st) ==
    IF run THEN
        LET prev == s.mode
            a == SetMode(s, ConfigMode) IN
        IF a.err THEN Err(a) ELSE
        LET b == ReadByte(a, BNO055_SYS_TRIGGER, 0) IN
        IF b.err THEN Err(b) ELSE
        LET c == WriteByte(b, BNO055_SYS_TRIGGER, 1) IN
        IF c.err THEN Err(c) ELSE
        LET d == Sleep(c, 1000)
            e == ReadByte(d, BNO055_ST_RESULT, st) IN
        IF e.err THEN Err(e) ELSE
        LET res == e.rd
            f == SetMode(e, prev) IN
        IF f.err THEN Err(f) ELSE [f EXCEPT !.rd = res]
    ELSE [s EXCEPT !.err = FALSE, !.rd = <<>>]

\* the self-test branch taken whatever `run` is
SelfTestAlways(s, run, st) ==
    LET prev == s.mode
        a == SetMode(s, ConfigMode) IN
    IF a.err THEN Err(a) ELSE
    LET b == ReadByte(a, BNO055_SYS_TRIGGER, 0) IN
    IF b.err THEN Err(b) ELSE
    LET c == WriteByte(b, BNO055_SYS_TRIGGER, BitOr(b.rd[1], 1)) IN
    IF c.err THEN Err(c) ELSE
    LET d == Sleep(c, 1000)
        e == ReadByte(d, BNO055_ST_RESULT, st) IN
    IF e.err THEN Err(e) ELSE
    LET res == e.rd
        f == SetMode(e, prev) IN
    IF f.err THEN Err(f) ELSE [f EXCEPT !.rd = res]

\* BNO055::get_system_status, the self-test branch (`let selftest = if run ...`);
\* st is what the chip presents at BNO055_ST_RESULT.  The value of `selftest`
\* is left in rd: <<>> for None, <<byte>> for Some(byte).
SelfTest(s, run, st) ==
    IF run THEN
        LET prev == s.mode
            a == SetMode(s, ConfigMode) IN
        IF a.err THEN Err(a) ELSE
        LET b == ReadByte(a, BNO055_SYS_TRIGGER, 0) IN
        IF b.err THEN Err(b) ELSE
        LET c == WriteByte(b, BNO055_SYS_TRIGGER, BitOr(b.rd[1], 1)) IN
        IF c.err THEN Err(c) ELSE
        LET d == Sleep(c, 1000)
            e == ReadByte(d, BNO055_ST_RESULT, st) IN
        IF e.err THEN Err(e) ELSE
        LET res == e.rd
            f == SetMode(e, prev) IN
        IF f.err THEN Err(f) ELSE [f EXCEPT !.rd = res]
    ELSE [s EXCEPT !.err = FALSE, !.rd = <<>>]

\* BNO055::get_system_status; status and error are what the chip presents at
\* BNO055_SYS_STATUS and BNO055_SYS_ERR, sv and ev what the two transmutes yield
GetSystemStatus(s, run, st, status, error, sv, ev) ==
    LET a == SelfTest(s, run, st) IN
    IF a.err THEN a ELSE
    LET selftest == a.rd
        b == ReadByte(a, BNO055_SYS_STATUS, status) IN
    IF b.err THEN Err(b) ELSE
    LET c == ReadByte(b, BNO055_SYS_ERR, error) IN
    IF c.err THEN Err(c) ELSE
    Ok(c, [status |-> sv, error |-> ev, selftest |-> selftest])

\* the four flags of BNO055::get_calibration_status from the status byte
CalibrationFlags(status) ==
    [sys |-> Shr(BitAnd(status, 192), 6) = 3,
     gyr |-> Shr(BitAnd(status, 48), 6) = 3,
     acc |-> Shr(BitAnd(status, 12), 6) = 3,
     mag |-> Shr(BitAnd(status, 3), 6) = 3]

\* BNO055::get_calibration_status; b is what the chip presents at BNO055_CALIB_STAT
GetCalibrationStatus(s, b) ==
    LET t == ReadByte(s, BNO055_CALIB_STAT, b) IN
    IF t.err THEN Err(t) ELSE Ok(t, CalibrationFlags(t.rd[1]))

\* get_calibration reading its 22 bytes from the register after ACC_OFFSET_X_LSB
GetCalibrationShifted(s) ==
    LET prev == s.mode
        buf == ReadBlock(s, BNO055_ACC_OFFSET_X_LSB + 1, CalibLen, <<>>)
        u == SetMode(buf, prev) IN
    IF u.err THEN Err(u)
    ELSE IF buf.err THEN Err(u) ELSE Ok(u, buf.rd)

\* BNO055::get_calibration: the read's Result is kept in buf, not unwrapped
GetCalibration(s) ==
    LET prev == s.mode
        buf == ReadBlock(s, BNO055_ACC_OFFSET_X_LSB, CalibLen, <<>>)
        u == SetMode(buf, prev) IN
    IF u.err THEN Err(u)
    ELSE IF buf.err THEN Err(u) ELSE Ok(u, buf.rd)

\* BNO055::set_calibration
SetCalibration(s, buf) ==
    LET prev == s.mode
        t == WriteBlock(s, BNO055_ACC_OFFSET_X_LSB, buf) IN
    IF t.err THEN Err(t) ELSE
    LET u == SetMode(t, prev) IN
    IF u.err THEN Err(u) ELSE Ok(u, <<>>)

\* the byte pair (lo, hi) read without a sign
ReadU16(lo, hi) == lo + 256 * hi

\* LittleEndian::read_i16 of the byte pair (lo, hi)
ReadI16(lo, hi) ==
    LET u == lo + 256 * hi IN IF u >= 32768 THEN u - 65536 ELSE u

\* An f32 is kept as [sign, man, exp], standing for sign * man * 2^exp with
\* man in 2^23 .. 2^24 - 1 (24 significant bits); zero is F32Zero. The values
\* of this driver stay in the normal range.
F32Zero == [sign |-> 1, man |-> 0, exp |-> 0]

Pow2(k) == 2 ^ k

RECURSIVE BitLen(_)
BitLen(n) == IF n = 0 THEN 0 ELSE 1 + BitLen(n \div 2)

\* round to nearest, ties to even: man with a discarded part that is below
\* (cmp < 0), at (cmp = 0) or above (cmp > 0) one half of the last place
F32Round(sign, man, exp, cmp) ==
    LET up == cmp > 0 \/ (cmp = 0 /\ man % 2 = 1)
        m == IF up THEN man + 1 ELSE man IN
    IF m = Pow2(24) THEN [sign |-> sign, man |-> Pow2(23), exp |-> exp + 1]
    ELSE [sign |-> sign, man |-> m, exp |-> exp]

\* `n as f32` for an integer of at most 24 bits: exact
F32FromInt(n) ==
    IF n = 0 THEN F32Zero ELSE
    LET a == IF n < 0 THEN -n ELSE n
        l == BitLen(a) IN
    [sign |-> IF n < 0 THEN -1 ELSE 1, man |-> a * Pow2(24 - l), exp |-> l - 24]

\* k steps of binary long division: <<quotient, remainder>> of r * 2^k by d
RECURSIVE LongDiv(_, _, _, _)
LongDiv(q, r, d, k) ==
    IF k = 0 THEN <<q, r>>
    ELSE IF 2 * r >= d THEN LongDiv(2 * q + 1, 2 * r - d, d, k - 1)
         ELSE LongDiv(2 * q, 2 * r, d, k - 1)

\* the f32 quotient a / b (b not zero)
F32Div(a, b) ==
    IF a.man = 0 THEN F32Zero ELSE
    LET k == IF a.man >= b.man THEN 23 ELSE 24
        qr == LongDiv(a.man \div b.man, a.man % b.man, b.man, k)
        cmp == IF 2 * qr[2] > b.man THEN 1 ELSE IF 2 * qr[2] = b.man THEN 0 ELSE -1 IN
    F32Round(a.sign * b.sign, qr[1], a.exp - b.exp - k, cmp)

\* the f32 product a * b; the 48-bit product of the mantissas is formed from
\* 12-bit halves as hi * 2^24 + lo
F32Mul(a, b) ==
    IF a.man = 0 \/ b.man = 0 THEN F32Zero ELSE
    LET a1 == a.man \div 4096  a0 == a.man % 4096
        b1 == b.man \div 4096  b0 == b.man % 4096
        t0 == a0 * b0
        t1 == a1 * b0 + a0 * b1 + (t0 \div 4096)
        hi == a1 * b1 + (t1 \div 4096)
        lo == (t1 % 4096) * 4096 + (t0 % 4096)
        big == hi >= Pow2(23)
        man == IF big THEN hi ELSE 2 * hi + (lo \div Pow2(23))
        rem == IF big THEN lo ELSE 2 * (lo % Pow2(23))
        cmp == IF rem > Pow2(23) THEN 1 ELSE IF rem = Pow2(23) THEN 0 ELSE -1 IN
    F32Round(a.sign * b.sign, man, a.exp + b.exp + (IF big THEN 24 ELSE 23), cmp)

\* `raw as f32 * scale`
Scaled(raw, scale) == F32Mul(F32FromInt(raw), scale)

\* `1.0 / d` in f32, and the `scale` of each reading
Recip(d) == F32Div(F32FromInt(1), F32FromInt(d))
QuaternionScale == Recip(2 ^ 14)
EulerScale == Recip(900)
LinearAccelerationScale == Recip(100)
MagneticScale == Recip(16)
AngularRateScale == Recip(900)
AccelerationScale == Recip(100)

\* BNO055::get_quaternion; blk is what the chip presents at QUA_DATA_W_LSB
GetQuaternion(s, blk) ==
    LET t == ReadBlock(s, BNO055_QUA_DATA_W_LSB, 8, blk) IN
    IF t.err THEN Err(t) ELSE
    LET buf == t.rd
        scale == QuaternionScale IN
    Ok(t, [w |-> Scaled(ReadI16(buf[1], buf[2]), scale),
           x |-> Scaled(ReadI16(buf[3], buf[4]), scale),
           y |-> Scaled(ReadI16(buf[5], buf[6]), scale),
           z |-> Scaled(ReadI16(buf[7], buf[8]), scale)])

\* the body shared by get_euler, get_linear_acceleration, magnetic_reading,
\* angular_rate_reading and acceleration_reading: a 6-byte read at reg, three
\* little-endian i16 as f32, each times scale
ReadVec3(s, reg, scale, blk) ==
    LET t == ReadBlock(s, reg, 6, blk) IN
    IF t.err THEN Err(t) ELSE
    LET buf == t.rd IN
    Ok(t, [x |-> Scaled(ReadI16(buf[1], buf[2]), scale),
           y |-> Scaled(ReadI16(buf[3], buf[4]), scale),
           z |-> Scaled(ReadI16(buf[5], buf[6]), scale)])

\* BNO055::get_euler
GetEuler(s, blk) == ReadVec3(s, BNO055_EUL_HEADING_LSB, EulerScale, blk)

\* BNO055::get_linear_acceleration
GetLinearAcceleration(s, blk) == ReadVec3(s, BNO055_LIA_DATA_X_LSB, LinearAccelerationScale, blk)

\* Magnetometer::magnetic_reading
MagneticReading(s, blk) == ReadVec3(s, BNO055_MAG_DATA_X_LSB, MagneticScale, blk)

\* Gyroscope::angular_rate_reading
AngularRateReading(s, blk) == ReadVec3(s, BNO055_GYR_DATA_X_LSB, AngularRateScale, blk)

\* Accelerometer::acceleration_reading
AccelerationReading(s, blk) == ReadVec3(s, BNO055_ACC_DATA_X_LSB, AccelerationScale, blk)

\* temperature_celsius selecting register page 0 before it reads
TemperatureCelsiusPaged(s, b) ==
    LET p == SetPage(s, Page0) IN
    IF p.err THEN Err(p) ELSE
    LET t == ReadByte(p, BNO055_TEMP, b) IN
    IF t.err THEN Err(t) ELSE Ok(t, F32FromInt(t.rd[1]))

\* Thermometer::temperature_celsius; b is what the chip presents at BNO055_TEMP
TemperatureCelsius(s, b) ==
    LET t == ReadByte(s, BNO055_TEMP, b) IN
    IF t.err THEN Err(t) ELSE Ok(t, F32FromInt(t.rd[1]))

----------------------------------------------------------------------------
(* The inputs the calls are tried with. *)

\* chip-identity bytes
ChipIdSamples == {BNO055_ID, 0, 161, 255}

\* the device's mode, page and power mode before the driver is constructed
InitModes == {ConfigMode, Ndof}
InitPages == {Page0, Page1}
InitPowerModes == {PowerNormal, PowerSuspend}

\* what the chip presents at ST_RESULT, SYS_STATUS and SYS_ERR: two with both
\* codes in range, one with the status and one with the error code outside
StatusSamples == {<<15, 5, 0>>, <<5, 6, 10>>, <<15, 7, 0>>, <<15, 5, 11>>}

\* calibration-status bytes
CalibStatSamples == {0, 255, 192, 48, 12, 3, 171}

\* calibration buffers: two of the 22 bytes the chip expects, one of 23
Buf1 == [i \in 1 .. CalibLen |-> i]
Buf2 == [i \in 1 .. CalibLen |-> 256 - i]
BufLong == [i \in 1 .. CalibLen + 1 |-> 100 + i]
CalibBufs == {Buf1, Buf2, BufLong}

\* quaternion blocks: (16384, 0, 0, 0) and (-1, -32768, 1, 32767)
QuatBlocks == {<<0, 64, 0, 0, 0, 0, 0, 0>>, <<255, 255, 0, 128, 1, 0, 255, 127>>}

\* vector blocks: (900, 450, -900) and (0, -32768, 32767)
VecBlocks == {<<132, 3, 194, 1, 124, 252>>, <<0, 0, 0, 128, 255, 127>>}

\* temperature bytes
TempSamples == {0, 25, 255}

----------------------------------------------------------------------------
(* The state machine. *)

NoResult == [tag |-> "none", val |-> <<>>]

\* the number of bus transactions in a log
RECURSIVE NumTx(_)
NumTx(l) ==
    IF l = <<>> THEN 0
    ELSE (IF Head(l).k = "sleep" THEN 0 ELSE 1) + NumTx(Tail(l))

\* what the chip presents is drawn from S when every transaction of the call
\* succeeds (f = 0); a call in which one fails returns the error whatever it read
Drawn(f, S, d) == IF f = 0 THEN S ELSE {d}

\* the state a call starts in; the f-th transaction from now fails (0: none)
Start(f) ==
    [mode |-> mode, regs |-> regs, log |-> <<>>, err |-> FALSE, fail |-> f,
     rd |-> <<>>, ret |-> NoResult]

\* the state a call on an open driver ends in
Finish(name, arg, s) ==
    /\ mode' = s.mode
    /\ regs' = s.regs
    /\ log' = s.log
    /\ result' = s.ret
    /\ op' = [name |-> name, arg |-> arg, preMode |-> mode]
    /\ phase' = phase

Init ==
    /\ phase = "closed"
    /\ mode = "none"
    /\ \E m \in InitModes, pg \in InitPages, pw \in InitPowerModes :
         regs = [a \in StoredRegs |->
                   IF a = BNO055_OPR_MODE THEN m
                   ELSE IF a = BNO055_PAGE_ID THEN pg
                   ELSE IF a = BNO055_PWR_MODE THEN pw
                   ELSE 0]
    /\ log = <<>>
    /\ op = [name |-> "none", arg |-> <<>>, preMode |-> "none"]
    /\ result = NoResult
    /\ calset = <<>>

NewCall ==
    /\ phase = "closed"
    /\ \E chipid \in ChipIdSamples, f \in 0 .. 6 :
         LET s == New(Start(f), chipid) IN
         /\ phase' = CASE s.ret.tag = "ok" -> "open"
                       [] s.ret.tag = "panic" -> "panicked"
                       [] OTHER -> "failed"
         /\ mode' = IF s.ret.tag = "ok" THEN s.mode ELSE "none"
         /\ regs' = s.regs
         /\ log' = s.log
         /\ result' = s.ret
         /\ op' = [name |-> "new", arg |-> <<chipid>>, preMode |-> "none"]
         /\ UNCHANGED calset

SetModeCall ==
    /\ phase = "open"
    /\ \E m \in Modes :
         \E f \in 0 .. NumTx(SetMode(Start(0), m).log) :
           Finish("set_mode", <<m>>, SetMode(Start(f), m))
    /\ UNCHANGED calset

SetExternalCrystalCall ==
    /\ phase = "open"
    /\ \E ext \in BOOLEAN :
         \E f \in 0 .. NumTx(SetExternalCrystal(Start(0), ext).log) :
           Finish("set_external_crystal", <<ext>>, SetExternalCrystal(Start(f), ext))
    /\ UNCHANGED calset

GetSystemStatusCall ==
    /\ phase = "open"
    /\ \E run \in BOOLEAN :
         \E f \in 0 .. NumTx(GetSystemStatus(Start(0), run, 0, 0, 0, 0, 0).log) :
           \E p \in Drawn(f, StatusSamples, <<15, 5, 0>>) :
             \E sv \in Transmute(p[2], StatusCodes), ev \in Transmute(p[3], ErrorCodes) :
               Finish("get_system_status", <<run>>,
                      GetSystemStatus(Start(f), run, p[1], p[2], p[3], sv, ev))
    /\ UNCHANGED calset

GetCalibrationStatusCall ==
    /\ phase = "open"
    /\ \E f \in 0 .. 1 : \E b \in Drawn(f, CalibStatSamples, 0) :
         Finish("get_calibration_status", <<>>, GetCalibrationStatus(Start(f), b))
    /\ UNCHANGED calset

GetCalibrationCall ==
    /\ phase = "open"
    /\ \E f \in 0 .. NumTx(GetCalibration(Start(0)).log) :
         Finish("get_calibration", <<>>, GetCalibration(Start(f)))
    /\ UNCHANGED calset

\* calset follows the offset/radius registers: it is the buffer of the last
\* block write the device took
SetCalibrationCall ==
    /\ phase = "open"
    /\ \E buf \in CalibBufs :
       \E f \in 0 .. NumTx(SetCalibration(Start(0), buf).log) :
         LET s == SetCalibration(Start(f), buf) IN
         /\ Finish("set_calibration", <<buf>>, s)
         /\ calset' = IF \E i \in 1 .. Len(s.log) :
                            s.log[i].k = "write_block" /\ s.log[i].ok
                      THEN buf ELSE calset

GetQuaternionCall ==
    /\ phase = "open"
    /\ \E f \in 0 .. 1 : \E blk \in Drawn(f, QuatBlocks, <<>>) :
         Finish("get_quaternion", <<>>, GetQuaternion(Start(f), blk))
    /\ UNCHANGED calset

Vec3Call ==
    /\ phase = "open"
    /\ \E f \in 0 .. 1 : \E blk \in Drawn(f, VecBlocks, <<>>) :
         \/ Finish("get_euler", <<>>, GetEuler(Start(f), blk))
         \/ Finish("get_linear_acceleration", <<>>, GetLinearAcceleration(Start(f), blk))
         \/ Finish("magnetic_reading", <<>>, MagneticReading(Start(f), blk))
         \/ Finish("angular_rate_reading", <<>>, AngularRateReading(Start(f), blk))
         \/ Finish("acceleration_reading", <<>>, AccelerationReading(Start(f), blk))
    /\ UNCHANGED calset

TemperatureCelsiusCall ==
    /\ phase = "open"
    /\ \E f \in 0 .. 1 : \E b \in Drawn(f, TempSamples, 0) :
         Finish("temperature_celsius", <<>>, TemperatureCelsius(Start(f), b))
    /\ UNCHANGED calset

Next ==
    \/ NewCall
    \/ SetModeCall
    \/ SetExternalCrystalCall
    \/ GetSystemStatusCall
    \/ GetCalibrationStatusCall
    \/ GetCalibrationCall
    \/ SetCalibrationCall
    \/ GetQuaternionCall
    \/ Vec3Call
    \/ TemperatureCelsiusCall

Spec == Init /\ [][Next]_vars

----------------------------------------------------------------------------
(* What the claims speak of. *)

Called(name) == phase = "open" /\ op.name = name

\* every transaction of the most recent call succeeded
NoFailure == \A i \in 1 .. Len(log) : log[i].ok

\* the events of the log that satisfy Test, in order
Only(Test(_)) == SelectSeq(log, Test)

IsModeWrite(e) == e.k = "write" /\ e.reg = BNO055_OPR_MODE
IsTriggerRead(e) == e.k = "read" /\ e.reg = BNO055_SYS_TRIGGER
IsTriggerWrite(e) == e.k = "write" /\ e.reg = BNO055_SYS_TRIGGER
IsResultRead(e) == e.k = "read" /\ e.reg = BNO055_ST_RESULT
IsStatusRead(e) == e.k = "read" /\ e.reg = BNO055_SYS_STATUS
IsErrorRead(e) == e.k = "read" /\ e.reg = BNO055_SYS_ERR
IsCalibBlock(e) ==
    e.k \in {"read_block", "write_block"} /\ e.reg = BNO055_ACC_OFFSET_X_LSB

\* the log of a mode switch: one byte write of m to OPR_MODE, then the delay
IsSwitchLog(l, m) ==
    /\ Len(l) = 2
    /\ l[1].k = "write" /\ l[1].reg = BNO055_OPR_MODE /\ l[1].data = <<m>> /\ l[1].ok
    /\ l[2].k = "sleep" /\ l[2].ms >= 19

\* a call of set_mode(m) on the present registers by a driver whose cached
\* mode is c
SetModeFrom(c, m) == SetMode([Start(0) EXCEPT !.mode = c], m)

(* C1: the cached mode equals the value this driver wrote last to OPR_MODE;  *)
(* after a successful set_mode(m) the cached mode is m.                      *)
C1_CachedModeIsLastWritten ==
    /\ (Called("set_mode") /\ result.tag = "ok") => mode = op.arg[1]
    /\ (phase = "open" /\ Only(IsModeWrite) # <<>>) =>
          LET w == Only(IsModeWrite) IN w[Len(w)].ok => <<mode>> = w[Len(w)].data

(* C2: set_mode(m) with m different from the cached mode, on a transport     *)
(* that does not fail, issues exactly one byte write, of m to OPR_MODE,      *)
(* immediately followed by a delay of at least 19 ms, and nothing else.      *)
C2_SwitchWritesOnceThenDelays ==
    /\ (Called("set_mode") /\ op.arg[1] # op.preMode /\ NoFailure) =>
          (IsSwitchLog(log, op.arg[1]) /\ result.tag = "ok")
    /\ Called("set_mode") =>
          \A c \in Modes, m \in Modes :
              c # m => (IsSwitchLog(SetModeFrom(c, m).log, m)
                        /\ SetModeFrom(c, m).ret.tag = "ok")

C2_Witness ==
    /\ Called("set_mode") /\ op.arg = <<Ndof>> /\ op.preMode = ConfigMode
    /\ NoFailure /\ Len(log) = 2 /\ regs[BNO055_OPR_MODE] = Ndof

(* C3: set_mode(m) with m equal to the cached mode issues no write and no    *)
(* delay, returns Ok and leaves the cached mode and every register as they   *)
(* were, for each of the 13 modes.                                           *)
C3_SameModeIsNoOp ==
    /\ (Called("set_mode") /\ op.arg[1] = op.preMode) =>
          (log = <<>> /\ result.tag = "ok" /\ mode = op.preMode)
    /\ Called("set_mode") => \A c \in Modes :
          /\ SetModeFrom(c, c).log = <<>>
          /\ SetModeFrom(c, c).ret.tag = "ok"
          /\ SetModeFrom(c, c).mode = c
          /\ SetModeFrom(c, c).regs = regs

C3_Witness ==
    /\ Called("set_mode") /\ op.arg = <<ConfigMode>> /\ op.preMode = ConfigMode
    /\ log = <<>> /\ result.tag = "ok" /\ regs[BNO055_OPR_MODE] = Ndof

(* C4: whenever set_external_crystal or the self-test branch of              *)
(* get_system_status writes the trigger register, the chip's mode register   *)
(* holds Config Mode.                                                        *)
C4_TriggerWrittenInConfigMode ==
    (Called("set_external_crystal") \/ Called("get_system_status")) =>
        \A i \in 1 .. Len(log) : IsTriggerWrite(log[i]) => log[i].cfg

\* the four flags the chip's layout gives the status byte b: sys in bits 7-6,
\* gyr in bits 5-4, acc in bits 3-2, mag in bits 1-0
LayoutFlags(b) ==
    [sys |-> (b \div 64) % 4 = 3,
     gyr |-> (b \div 16) % 4 = 3,
     acc |-> (b \div 4) % 4 = 3,
     mag |-> b % 4 = 3]

(* C5: get_calibration_status returns, for every status byte b, sys, gyr,    *)
(* acc and mag as "bits 7-6, 5-4, 3-2, 1-0 of b are 0b11".                   *)
C5_CalibrationFlagsFollowLayout ==
    (Called("get_calibration_status") /\ result.tag = "ok") =>
        result.val = LayoutFlags(log[1].data[1])

\* get_system_status(true) was called and none of its transactions failed
SelfTestDone == Called("get_system_status") /\ op.arg = <<TRUE>> /\ NoFailure

\* its log: one trigger read, one trigger write of the value read with bit 0
\* set, a sleep of at least 1 s, one result read, in that order; the byte read
\* is the self-test result returned
SelfTestInOrder ==
    SelfTestDone =>
        /\ Len(Only(IsTriggerRead)) = 1
        /\ Len(Only(IsTriggerWrite)) = 1
        /\ Len(Only(IsResultRead)) = 1
        /\ \E i, j, k, l \in 1 .. Len(log) :
              /\ i < j /\ j < k /\ k < l
              /\ IsTriggerRead(log[i])
              /\ IsTriggerWrite(log[j])
              /\ LET v == log[i].data[1] IN
                 log[j].data = <<IF v % 2 = 1 THEN v ELSE v + 1>>
              /\ log[k].k = "sleep" /\ log[k].ms >= 1000
              /\ IsResultRead(log[l])
              /\ result.tag = "ok"
              /\ result.val.selftest = log[l].data

\* the step that is such a call leaves the device's mode register and the
\* cached mode as they were before it
SelfTestRestores ==
    SelfTestDone' => (regs'[BNO055_OPR_MODE] = regs[BNO055_OPR_MODE] /\ mode' = mode)

(* C6: get_system_status(true) on a transport that does not fail reads the   *)
(* trigger register once, writes it once with the value read plus the        *)
(* self-test bit, sleeps at least 1 s, reads the self-test result once, in   *)
(* that order, leaves the device mode and the cached mode as before the      *)
(* call, and returns the result byte as read.                                *)
C6_SelfTestSequence == []SelfTestInOrder /\ [][SelfTestRestores]_vars

C6_Witness ==
    /\ Called("get_system_status") /\ op.arg = <<TRUE>> /\ NoFailure
    /\ Only(IsTriggerRead)[1].data = <<128>>
    /\ Only(IsTriggerWrite)[1].data = <<129>>
    /\ result.tag = "ok" /\ result.val.selftest = <<5>>
    /\ regs[BNO055_OPR_MODE] = Ndof

(* C7: when the identity read returns a byte other than 0xA0, new produces   *)
(* no driver and issues no transaction after that read.                      *)
C7_WrongChipIdStopsNew ==
    (op.name = "new" /\ Len(log) >= 1 /\ log[1].ok /\ log[1].data # <<BNO055_ID>>) =>
        /\ phase # "open"
        /\ result.tag # "ok"
        /\ mode = "none"
        /\ Len(log) = 1

C7_Witness ==
    /\ op.name = "new" /\ phase = "panicked"
    /\ log = <<[k |-> "read", reg |-> BNO055_CHIP_ID, data |-> <<161>>, ms |-> 0,
                ok |-> TRUE, cfg |-> FALSE]>>

(* C8: a system-status byte outside 0..6 or a system-error byte outside      *)
(* 0..10 makes get_system_status yield a decode error; it never returns a    *)
(* status or error value outside its enumeration.                            *)
C8_OutOfRangeByteIsDecodeError ==
    (Called("get_system_status") /\ NoFailure) =>
        /\ (\/ Only(IsStatusRead)[1].data[1] \notin StatusCodes
            \/ Only(IsErrorRead)[1].data[1] \notin ErrorCodes) =>
               result.tag = "decode_error"
        /\ result.tag = "ok" =>
               (result.val.status \in StatusCodes /\ result.val.error \in ErrorCodes)

(* C9: get_calibration after set_calibration(B), B of 22 bytes, with no      *)
(* other write to the offset/radius registers in between and no failing      *)
(* transaction, returns B.                                                   *)
C9_CalibrationRoundTrip ==
    (Called("get_calibration") /\ result.tag = "ok" /\ Len(calset) = CalibLen) =>
        result.val = calset

C9_Witness ==
    /\ Called("get_calibration") /\ result.tag = "ok"
    /\ calset = Buf2 /\ result.val = Buf2
    /\ regs[BNO055_MAG_RADIUS_MSB + 1] = BufLong[CalibLen + 1]

(* C10: get_calibration reads, and set_calibration writes, the offset/radius *)
(* block only while the chip's mode register holds Config Mode.              *)
C10_CalibrationBlockInConfigMode ==
    (Called("get_calibration") \/ Called("set_calibration")) =>
        \A i \in 1 .. Len(log) : IsCalibBlock(log[i]) => log[i].cfg

(* C11: when a bus transaction of a call fails, the call returns the         *)
(* transport error, and the failed transaction is the last thing the call    *)
(* does on the bus: it is not issued again and nothing follows it.           *)
C11_FailureEndsTheCall ==
    \A i \in 1 .. Len(log) :
        ~log[i].ok =>
            /\ i = Len(log)
            /\ result.tag = "err"
            /\ op.name = "new" => phase = "failed"

C11_Witness ==
    /\ Called("get_system_status") /\ op.arg = <<TRUE>>
    /\ Len(log) = 4 /\ IsResultRead(log[4]) /\ ~log[4].ok
    /\ result.tag = "err"

\* the successful writes of the log, as (register, bytes) pairs in order
WritesOf(l) ==
    LET w == SelectSeq(l, LAMBDA e : e.k \in {"write", "write_block"} /\ e.ok) IN
    [i \in 1 .. Len(w) |-> <<w[i].reg, w[i].data>>]

(* C12: after a successful new the device is in Config Mode, on page 0, in   *)
(* Normal power mode, with the trigger register 0, and the cached mode is    *)
(* Config Mode; new wrote, in this order, Config Mode to the mode register,  *)
(* page 0, the reset pattern, Normal power mode and 0 to the trigger         *)
(* register, that last write being its last transaction.                     *)
C12_NewLeavesConfigPage0Normal ==
    (op.name = "new" /\ result.tag = "ok") =>
        /\ phase = "open" /\ mode = ConfigMode
        /\ regs[BNO055_OPR_MODE] = ConfigMode
        /\ regs[BNO055_PAGE_ID] = Page0
        /\ regs[BNO055_PWR_MODE] = PowerNormal
        /\ regs[BNO055_SYS_TRIGGER] = 0
        /\ WritesOf(log) = << <<BNO055_OPR_MODE, <<ConfigMode>>>>,
                              <<BNO055_PAGE_ID, <<Page0>>>>,
                              <<BNO055_SYS_TRIGGER, <<32>>>>,
                              <<BNO055_PWR_MODE, <<PowerNormal>>>>,
                              <<BNO055_SYS_TRIGGER, <<0>>>> >>
        /\ IsTriggerWrite(log[Len(log)])

(* C13: when the write to the mode register fails in set_mode(m), m not the  *)
(* cached mode, the cached mode is as before the call, no delay is made and  *)
(* the transport error is returned.                                          *)
C13_FailedSwitchKeepsCache ==
    /\ (Called("set_mode") /\ op.arg[1] # op.preMode /\ ~NoFailure) =>
          /\ mode = op.preMode
          /\ \A i \in 1 .. Len(log) : log[i].k # "sleep"
          /\ result.tag = "err"
    /\ Called("set_mode") =>
          \A c \in Modes, m \in Modes :
              c # m =>
                LET s == SetMode([Start(1) EXCEPT !.mode = c], m) IN
                /\ s.mode = c
                /\ \A i \in 1 .. Len(s.log) : s.log[i].k # "sleep"
                /\ s.ret.tag = "err"
                /\ s.regs = regs

C13_Witness ==
    /\ Called("set_mode") /\ op.arg = <<Ndof>> /\ op.preMode = ConfigMode
    /\ Len(log) = 1 /\ IsModeWrite(log[1]) /\ ~log[1].ok
    /\ result.tag = "err" /\ mode = ConfigMode

\* the readings decoded from 16-bit fields: the divisor of each quantity and
\* the names of its components, in the order of their byte pairs
DecodedReadings ==
    {"get_quaternion", "get_euler", "get_linear_acceleration",
     "magnetic_reading", "angular_rate_reading", "acceleration_reading"}

Divisor(name) ==
    CASE name = "get_quaternion" -> 16384
      [] name \in {"get_euler", "angular_rate_reading"} -> 900
      [] name \in {"get_linear_acceleration", "acceleration_reading"} -> 100
      [] name = "magnetic_reading" -> 16

Components(name) ==
    IF name = "get_quaternion" THEN <<"w", "x", "y", "z">> ELSE <<"x", "y", "z">>

\* the signed 16-bit integer of a byte pair whose second byte is the high one
SignedLE(lo, hi) == IF hi >= 128 THEN lo + 256 * hi - 65536 ELSE lo + 256 * hi

\* the f32 next to a in magnitude, above and below
F32Above(a) == F32Round(a.sign, a.man, a.exp, 1)
F32Below(a) ==
    IF a.man = Pow2(23) THEN [a EXCEPT !.man = Pow2(24) - 1, !.exp = a.exp - 1]
    ELSE [a EXCEPT !.man = a.man - 1]

\* a successful decoded reading, and the i-th component it returned with the
\* integer of the i-th byte pair of the block that was read
Decoded == Called(op.name) /\ op.name \in DecodedReadings /\ result.tag = "ok"
Got(i) == result.val[Components(op.name)[i]]
Field(i) == SignedLE(log[1].data[2 * i - 1], log[1].data[2 * i])
Quotient(i) == F32Div(F32FromInt(Field(i)), F32FromInt(Divisor(op.name)))

(* C14, as the code has it: each component of a quaternion or 3-axis reading *)
(* is the f32 product of the little-endian signed 16-bit integer of its byte *)
(* pair and the f32 reciprocal of the quantity's divisor. That product is    *)
(* the f32 quotient for the divisors 16384 and 16 and for the values 1, 1/2  *)
(* and -1 of the examples; for 900 and 100 it is the quotient or one of the  *)
(* two f32 next to it.                                                       *)
C14_ComponentIsScaledField ==
    Decoded =>
        \A i \in 1 .. Len(Components(op.name)) :
            LET d == Divisor(op.name) IN
            /\ Got(i) = F32Mul(F32FromInt(Field(i)), Recip(d))
            /\ d \in {16384, 16} => Got(i) = Quotient(i)
            /\ Got(i) \in {Quotient(i), F32Above(Quotient(i)), F32Below(Quotient(i))}
            /\ Field(i) = d => Got(i) = F32FromInt(1)
            /\ Field(i) = -d => Got(i) = F32FromInt(-1)
            /\ 2 * Field(i) = d => F32Mul(F32FromInt(2), Got(i)) = F32FromInt(1)
            /\ Field(i) = 0 => Got(i) = F32Zero

C14_Witness ==
    /\ Called("get_euler") /\ result.tag = "ok"
    /\ log[1].data = <<0, 0, 0, 128, 255, 127>>
    /\ Field(2) = -32768 /\ Got(2) = Quotient(2)
    /\ Field(3) = 32767 /\ Got(3) = F32Above(Quotient(3))

(* C14, as stated: each component is the signed 16-bit integer of its byte   *)
(* pair divided by the quantity's divisor.                                   *)
C14_ComponentIsQuotient ==
    Decoded => \A i \in 1 .. Len(Components(op.name)) : Got(i) = Quotient(i)

\* the calls that reconfigure the chip for their own duration
IsTransient(o) ==
    \/ o.name \in {"set_external_crystal", "get_calibration", "set_calibration"}
    \/ o.name = "get_system_status" /\ o.arg = <<TRUE>>

\* a step that is such a call and returns Ok leaves the chip's mode register
\* and the cached mode as they were before it
TransientRestores ==
    (phase' = "open" /\ IsTransient(op') /\ result'.tag = "ok") =>
        (regs'[BNO055_OPR_MODE] = regs[BNO055_OPR_MODE] /\ mode' = mode)

(* C15: set_external_crystal, get_system_status(true), get_calibration and   *)
(* set_calibration, when they complete successfully, leave the chip's mode   *)
(* register and the cached mode equal to their values before the call.       *)
C15_TransientCallsRestoreMode == [][TransientRestores]_vars

C15_Witness ==
    /\ Called("set_external_crystal") /\ op.arg = <<TRUE>> /\ result.tag = "ok"
    /\ regs[BNO055_SYS_TRIGGER] = 128
    /\ regs[BNO055_OPR_MODE] = Ndof /\ mode = ConfigMode

ReadingNames == DecodedReadings \cup {"temperature_celsius"}

\* the register a reading starts at and the number of bytes it asks for
ReadingStart(name) ==
    CASE name = "get_quaternion" -> 32
      [] name = "get_euler" -> 26
      [] name = "get_linear_acceleration" -> 40
      [] name = "magnetic_reading" -> 14
      [] name = "angular_rate_reading" -> 20
      [] name = "acceleration_reading" -> 8
      [] name = "temperature_celsius" -> 52

ReadingLength(name) ==
    CASE name = "get_quaternion" -> 8
      [] name = "temperature_celsius" -> 1
      [] OTHER -> 6

\* the reading called name, by a driver whose cached mode is c, of a chip
\* that presents zeros
ReadingFrom(name, c) ==
    LET s == [Start(0) EXCEPT !.mode = c] IN
    CASE name = "get_quaternion" -> GetQuaternion(s, <<>>)
      [] name = "get_euler" -> GetEuler(s, <<>>)
      [] name = "get_linear_acceleration" -> GetLinearAcceleration(s, <<>>)
      [] name = "magnetic_reading" -> MagneticReading(s, <<>>)
      [] name = "angular_rate_reading" -> AngularRateReading(s, <<>>)
      [] name = "acceleration_reading" -> AccelerationReading(s, <<>>)
      [] name = "temperature_celsius" -> TemperatureCelsius(s, 0)

\* the log of a reading: one read of the right kind at the right register
IsReadingLog(l, name) ==
    /\ Len(l) = 1
    /\ l[1].k = IF name = "temperature_celsius" THEN "read" ELSE "read_block"
    /\ l[1].reg = ReadingStart(name)
    /\ l[1].ok => Len(l[1].data) = ReadingLength(name)

(* C16: each sensor reading, whatever the mode of the chip and the cached    *)
(* mode, issues exactly one bus read (8 bytes at 0x20 for the quaternion, 6  *)
(* bytes at the block start for the vectors, 1 byte at 0x34 for the          *)
(* temperature), no write and no delay, returns Ok when that read succeeds,  *)
(* and leaves the cached mode and the registers as they were.                *)
C16_ReadingIsOneRead ==
    (phase = "open" /\ op.name \in ReadingNames) =>
        /\ IsReadingLog(log, op.name)
        /\ result.tag = IF log[1].ok THEN "ok" ELSE "err"
        /\ mode = op.preMode
        /\ \A c \in Modes :
              LET s == ReadingFrom(op.name, c) IN
              /\ IsReadingLog(s.log, op.name)
              /\ s.ret.tag = "ok"
              /\ s.mode = c /\ s.regs = regs

C16_Witness ==
    /\ Called("temperature_celsius") /\ result.tag = "ok"
    /\ log[1].data = <<25>> /\ result.val = F32FromInt(25)
    /\ regs[BNO055_OPR_MODE] = 1

(* C17: get_system_status(false) issues no read or write of the trigger      *)
(* register, no read of the self-test result register, no write of the mode  *)
(* register and no delay; it reads the system-status register and then the   *)
(* system-error register, one byte each and nothing else, and returns an     *)
(* absent self-test result.                                                  *)
C17_NoSelfTestUnlessAsked ==
    (Called("get_system_status") /\ op.arg = <<FALSE>>) =>
        /\ \A i \in 1 .. Len(log) :
              /\ ~IsTriggerRead(log[i]) /\ ~IsTriggerWrite(log[i])
              /\ ~IsResultRead(log[i]) /\ ~IsModeWrite(log[i])
              /\ log[i].k = "read"
        /\ Len(log) \in 1 .. 2
        /\ IsStatusRead(log[1])
        /\ Len(log) = 2 => (log[1].ok /\ IsErrorRead(log[2]))
        /\ NoFailure => (Len(log) = 2 /\ result.tag = "ok" /\ result.val.selftest = <<>>)

C17_Witness ==
    /\ Called("get_system_status") /\ op.arg = <<FALSE>> /\ NoFailure
    /\ Len(log) = 2 /\ log[1].data = <<5>> /\ log[2].data = <<0>>
    /\ result.tag = "ok" /\ result.val.selftest = <<>>
    /\ regs[BNO055_OPR_MODE] = Ndof

(* C18: the block write of set_calibration starts at 0x55 and has exactly 22 *)
(* bytes, so it covers only 0x55-0x6A; a buffer whose length is not 22 is    *)
(* never written to the device.                                              *)
C18_CalibrationWriteIs22Bytes ==
    Called("set_calibration") =>
        /\ \A i \in 1 .. Len(log) :
              log[i].k = "write_block" =>
                  /\ log[i].reg = BNO055_ACC_OFFSET_X_LSB
                  /\ Len(log[i].data) = CalibLen
                  /\ log[i].reg + Len(log[i].data) - 1 <= BNO055_MAG_RADIUS_MSB
        /\ Len(op.arg[1]) # CalibLen =>
              \A i \in 1 .. Len(log) : log[i].k \notin {"write", "write_block"}

\* the cached mode of an open driver is Config Mode; set_mode(ConfigMode)
\* issues nothing; set_mode(m), m another mode, issues the write of m to the
\* mode register first, then the delay when that write succeeded and nothing
\* when it failed
CacheStaysConfig ==
    /\ phase = "open" => mode = ConfigMode
    /\ (Called("set_mode") /\ op.arg = <<ConfigMode>>) => log = <<>>
    /\ (Called("set_mode") /\ op.arg # <<ConfigMode>>) =>
          /\ Len(log) >= 1
          /\ IsModeWrite(log[1]) /\ log[1].data = op.arg
          /\ log[1].ok => IsSwitchLog(log, op.arg[1])
          /\ ~log[1].ok => Len(log) = 1

\* a step that is set_mode(m), m not Config Mode, on a chip whose mode
\* register already holds m, writes m again
RewritesHeldMode ==
    (phase' = "open" /\ op'.name = "set_mode" /\ op'.arg # <<ConfigMode>>
       /\ op'.arg = <<regs[BNO055_OPR_MODE]>>) =>
        (Len(log') >= 1 /\ IsModeWrite(log'[1]) /\ log'[1].data = op'.arg)

(* C19, as the code has it: no call assigns the cached mode after            *)
(* construction, so it is Config Mode in every reachable state;              *)
(* set_mode(ConfigMode) never issues a write; set_mode(m), m not Config      *)
(* Mode, always issues the write of m, even when the mode register already   *)
(* holds m, and issues the delay when that write succeeds.                   *)
C19_CachedModeStaysConfig == []CacheStaysConfig /\ [][RewritesHeldMode]_vars

C19_Witness ==
    /\ Called("set_mode") /\ op.arg = <<Ndof>> /\ NoFailure
    /\ IsSwitchLog(log, Ndof) /\ ~log[1].cfg
    /\ mode = ConfigMode /\ regs[BNO055_OPR_MODE] = Ndof

(* C19, as stated: the cached mode is Config Mode in every reachable state,  *)
(* set_mode(ConfigMode) never writes the mode register, and set_mode(m), m   *)
(* not Config Mode, always issues a write and a delay.                       *)
C19_AlwaysWriteAndDelay ==
    /\ phase = "open" => mode = ConfigMode
    /\ (Called("set_mode") /\ op.arg = <<ConfigMode>>) =>
          \A i \in 1 .. Len(log) : ~IsModeWrite(log[i])
    /\ (Called("set_mode") /\ op.arg # <<ConfigMode>>) =>
          /\ \E i \in 1 .. Len(log) : IsModeWrite(log[i])
          /\ \E i \in 1 .. Len(log) : log[i].k = "sleep"

====
